---- MODULE Spec2Model ----
(***************************************************************************)
(* Model of the wna crate (src/src/lib.rs, src/src/window.rs): the builder, *)
(* the shared Repr behind Arc<Mutex<..>>, the Wna handles, the             *)
(* "wna-event-loop" dispatch thread and the "wna-window-loop" thread.      *)
(***************************************************************************)
EXTENDS Integers, Sequences, FiniteSets, TLC

\* ------------------------------------------------------------------ bounds
MaxBuilderItems == 2   \* menu_item() calls made on the builder
MaxIds == 2            \* ids allocated when an application thread may still add an entry
MaxShown == 2          \* balloons pending when an application thread may still show one
MaxCloses == 1         \* close() calls made by application threads
MaxEvents == 1         \* messages the window thread turns into events
MaxClones == 1         \* clones of the Handle alive at one time
MaxEventId == 0        \* largest menu id a WM_COMMAND message carries

\* ------------------------------------------------------- program constants
\* last_menu_id is a u32.  TLC's integers are 32-bit signed, so a u32 is
\* held as the signed integer with the same bit pattern: 0 .. 2147483647
\* stand for themselves, -2147483648 .. -1 for 2147483648 .. 4294967295.
I32Max == 2147483647
U32Max == -1

\* ------------------------------------------------------------------ inputs
\* Action = fn(&mut Wna): callbacks of examples/menu.rs.  "println" stands
\* for the callbacks that only print.
Callbacks == {"quit", "add_item", "println"}
None == "None"

Separator == [kind |-> "Separator", action |-> None]
ActionItem(cb) == [kind |-> "Action", action |-> cb]
MenuItems == {Separator} \cup {ActionItem(cb) : cb \in Callbacks}
BuilderItems == {Separator, ActionItem("quit")}
AppItems == {Separator, ActionItem("add_item")}
BalloonActions == {"println", "quit"}

MenuEvent(id) == [kind |-> "Menu", id |-> id]
BalloonEvent == [kind |-> "Balloon", id |-> 0]
QuitEvent == [kind |-> "Quit", id |-> 0]
NoEvent == [kind |-> "None", id |-> 0]
\* wparam of WM_COMMAND as delivered by the window thread
EventIds == 0 .. MaxEventId

VARIABLES
  builder,        \* WnaBuilder: [icon, tip: is Some; menu_items: Vec<MenuItem>]
  phase,          \* "Builder" | "Built" | "Failed"
  window,         \* Window: [handle, thread: is Some]
  wthread,        \* the wna-window-loop thread: "none" | "running" | "exited"
  destroy_posts,  \* PostMessageW(hwnd, WM_DESTROY) calls made so far
  menu,           \* entries the popup menu accepted: Seq([id, kind])
  last_menu_id,   \* Repr.last_menu_id
  actions,        \* Repr.actions: HashMap<u32, Action>
  balloon_action, \* Repr.balloon_action: Option<Action>
  repr_alive,     \* the Repr (and its event_sender) has not been dropped
  chan,           \* the mpsc queue of Event
  receiver_alive, \* the Receiver<Event> has not been dropped
  lock,           \* Mutex<Repr>: "free" | "dispatch" | "app" | "cb"
  closing,        \* the thread inside Repr::close: "none" | "app" | "cb"
  loop_pc,        \* "NotStarted" | "Recv" | "Lookup" | "Callback" | "Terminated"
  loop_event,     \* the event being dispatched, or the one just dropped or ending the loop
  cb,             \* the callback the loop is running, and
  cb_pc,          \*   its position: "start" | "done"
  orig,           \* the Handle build() returned: "none" | "live" | "joining" | "joined" | "dropped"
  clones,         \* live Handles made by clone()
  \* history
  ncloses,        \* close() calls made by application threads
  nevents,        \* events the window thread produced
  ret,            \* the Handle call that returned in the step just taken:
                  \*   [op, res, arg] (arg: the callback passed to show_balloon)
  allocated,      \* ids next_menu_id handed out, in order
  shown,          \* callbacks of the successful show_balloon calls since the last take
  taken,          \* value of shown when the running balloon callback was taken
  invoked,        \* callbacks invoked so far for loop_event
  close_called,   \* close() was called on a Handle (by an application thread or a callback)
  close_returned  \* a close() has returned

vars == <<builder, phase, window, wthread, destroy_posts, menu, last_menu_id,
          actions, balloon_action, repr_alive, chan, receiver_alive, lock,
          closing, loop_pc, loop_event, cb, cb_pc, orig, clones,
          ncloses, nevents, ret, allocated, shown, taken, invoked,
          close_called, close_returned>>

builderVars == <<builder, phase>>
surfaceVars == <<window, wthread, destroy_posts, menu>>
reprVars == <<last_menu_id, actions, balloon_action, allocated, shown>>
chanVars == <<chan, receiver_alive>>
lockVars == <<lock, closing>>
loopVars == <<loop_pc, loop_event, cb, taken, invoked>>
handleVars == <<orig, clones>>
closeVars == <<close_called, close_returned>>

\* The step is the return of Handle call op with res / is no such return.
NoRet == [op |-> "none", res |-> "none", arg |-> "None"]
Returns(op, res) == ret' = [op |-> op, res |-> res, arg |-> "None"]
ReturnsOf(op, res, arg) == ret' = [op |-> op, res |-> res, arg |-> arg]
Silent == ret' = NoRet

\* --------------------------------------------------------------- helpers
\* Variant of WindowResult with a bug: the handle is not looked at.
WindowResultUnchecked(handle, ok) == IF ok THEN "Ok" ELSE "ErrSurface"

\* Outcome of a Window method: Err("Window is closed") when the handle is
\* None, else what the OS call answers (ok is the surface's answer).
WindowResult(handle, ok) ==
  IF handle THEN (IF ok THEN "Ok" ELSE "ErrSurface") ELSE "ErrClosed"

\* a < b as u32
ULess(a, b) == IF (a >= 0) = (b >= 0) THEN a < b ELSE a >= 0

\* Repr::next_menu_id: the value of last_menu_id after the call (the id
\* returned is the value before).  `self.last_menu_id += 1` on a u32: past
\* u32::MAX the value wraps to 0 (a build with overflow checks panics there
\* instead of wrapping).
next_menu_id(last) ==
  IF last = U32Max THEN 0
  ELSE IF last = I32Max THEN (0 - I32Max) - 1
  ELSE last + 1

\* Variants of actions_get with a bug: the key is off by one; a missing key
\* falls back to some entry of the map.
actions_get_off_by_one(acts, id) ==
  IF id + 1 \in DOMAIN acts THEN acts[id + 1] ELSE None

actions_get_fallback(acts, id) ==
  IF id \in DOMAIN acts THEN acts[id]
  ELSE IF DOMAIN acts # {} THEN acts[CHOOSE k \in DOMAIN acts : TRUE]
  ELSE None

\* repr.actions.get(&id).map(|f| *f)
actions_get(acts, id) == IF id \in DOMAIN acts THEN acts[id] ELSE None

\* Variant of balloon_set with a bug: a pending callback is kept.
balloon_set_keep_first(old, action) == IF old = None THEN action ELSE old

\* Variant of balloon_set with a bug: the assignment is missing.
balloon_set_forgotten(old, action) == old

\* self.balloon_action = Some(action)
balloon_set(old, action) == action

\* Variant of balloon_take_rest with a bug: the callback is copied out and
\* stays in the slot.
balloon_take_rest_kept(old) == old

\* repr.balloon_action.take(): what is left in the slot
balloon_take_rest(old) == None

\* Variant of LockAfterLookup with a bug: the guard lives on while the
\* action is called.
LockHeldAcrossCall == "dispatch"

\* The lock after the block `{ let mut repr = repr.lock().unwrap(); .. }`
\* of the dispatch loop: the guard is dropped at the end of the block,
\* before the action is called.
LockAfterLookup == "free"

\* Clone for Wna: thread: None
CloneThread == FALSE

\* Variant of JoinMayReturn with a bug: the thread is not joined.
JoinWithoutWaiting(has_thread, loop_finished) == TRUE

\* join_event_loop: `if let Some(thread) = self.thread { thread.join() }`
\* returns at once without a thread, else when the loop thread has finished.
JoinMayReturn(has_thread, loop_finished) == has_thread => loop_finished

\* Variant of HandleAfterClose with a bug: the handle is kept.
HandleKeptAfterClose == TRUE

\* Window::close sets self.handle = None
HandleAfterClose == FALSE

\* Variant of send_quit with a bug: nothing is sent.
send_quit_missing(q, rcv) == q

\* `let _ = self.event_sender.send(Event::Quit)`: the queue after the send;
\* the send fails, and is ignored, when the receiver is gone.
send_quit(q, rcv) == IF rcv THEN Append(q, [kind |-> "Quit", id |-> 0]) ELSE q

\* Variant of StrongCount with a bug: the loop thread holds no Arc of its
\* own.
StrongCountHandlesOnly(o, c, lp) ==
  (IF o \in {"live", "joining"} THEN 1 ELSE 0) + c

\* Strong count of the Arc<Mutex<Repr>>: the original Handle (also while it
\* is being joined), the clones, and the Arc the loop thread's closure owns
\* (the Wna made for a callback lives inside that thread).
StrongCount(o, c, lp) ==
  (IF o \in {"live", "joining"} THEN 1 ELSE 0) + c
    + (IF lp \in {"Recv", "Lookup", "Callback"} THEN 1 ELSE 0)

SomeHandle == orig = "live" \/ clones > 0

\* Variant of ReprAddMenuItem with a bug: an id is consumed for an Action
\* entry only.
ReprAddMenuItemSeparatorFree(r, handle, item, ok) ==
  LET id == r.last
      res == WindowResult(handle, ok)
  IN [last |-> IF item.kind = "Action" THEN next_menu_id(r.last) ELSE r.last,
      acts |-> IF res = "Ok" /\ item.kind = "Action"
               THEN [k \in DOMAIN r.acts \cup {id} |->
                       IF k = id THEN item.action ELSE r.acts[k]]
               ELSE r.acts,
      menu |-> IF res = "Ok"
               THEN Append(r.menu, [id |-> id, kind |-> item.kind])
               ELSE r.menu,
      alloc |-> Append(r.alloc, id),
      res |-> res]

\* Repr::add_menu_item on the fields r = [last, acts, menu, alloc]; ok is
\* the answer of InsertMenuItemW.
ReprAddMenuItem(r, handle, item, ok) ==
  LET id == r.last
      res == WindowResult(handle, ok)
  IN [last |-> next_menu_id(r.last),
      acts |-> IF res = "Ok" /\ item.kind = "Action"
               THEN [k \in DOMAIN r.acts \cup {id} |->
                       IF k = id THEN item.action ELSE r.acts[k]]
               ELSE r.acts,
      menu |-> IF res = "Ok"
               THEN Append(r.menu, [id |-> id, kind |-> item.kind])
               ELSE r.menu,
      alloc |-> Append(r.alloc, id),
      res |-> res]

EmptyActions == [k \in {} |-> None]

RECURSIVE ApplyItems(_, _, _)
\* `for item in self.menu_items.iter() { repr.add_menu_item(item)?; }`
ApplyItems(r, handle, items) ==
  IF items = <<>> THEN r
  ELSE ApplyItems(ReprAddMenuItem(r, handle, Head(items), TRUE), handle, Tail(items))

\* ------------------------------------------------------------------- Init
Init ==
  /\ builder = [icon |-> FALSE, tip |-> FALSE, menu_items |-> <<>>]
  /\ phase = "Builder"
  /\ window = [handle |-> FALSE, thread |-> FALSE]
  /\ wthread = "none"
  /\ destroy_posts = 0
  /\ menu = <<>>
  /\ last_menu_id = 0
  /\ actions = EmptyActions
  /\ balloon_action = None
  /\ repr_alive = FALSE
  /\ chan = <<>>
  /\ receiver_alive = FALSE
  /\ lock = "free"
  /\ closing = "none"
  /\ loop_pc = "NotStarted"
  /\ loop_event = NoEvent
  /\ cb = None
  /\ cb_pc = "done"
  /\ orig = "none"
  /\ clones = 0
  /\ ncloses = 0
  /\ nevents = 0
  /\ ret = NoRet
  /\ allocated = <<>>
  /\ shown = <<>>
  /\ taken = <<>>
  /\ invoked = <<>>
  /\ close_called = FALSE
  /\ close_returned = FALSE

\* ---------------------------------------------------------------- builder
\* WnaBuilder::icon
BuilderIcon ==
  /\ phase = "Builder" /\ ~builder.icon
  /\ builder' = [builder EXCEPT !.icon = TRUE]
  /\ Silent
  /\ UNCHANGED <<phase, surfaceVars, reprVars, repr_alive, chanVars, lockVars,
                 loopVars, cb_pc, handleVars, ncloses, nevents, closeVars>>

\* WnaBuilder::tip
BuilderTip ==
  /\ phase = "Builder" /\ ~builder.tip
  /\ builder' = [builder EXCEPT !.tip = TRUE]
  /\ Silent
  /\ UNCHANGED <<phase, surfaceVars, reprVars, repr_alive, chanVars, lockVars,
                 loopVars, cb_pc, handleVars, ncloses, nevents, closeVars>>

\* WnaBuilder::menu_item
BuilderMenuItem(item) ==
  /\ phase = "Builder" /\ Len(builder.menu_items) < MaxBuilderItems
  /\ builder' = [builder EXCEPT !.menu_items = Append(@, item)]
  /\ Silent
  /\ UNCHANGED <<phase, surfaceVars, reprVars, repr_alive, chanVars, lockVars,
                 loopVars, cb_pc, handleVars, ncloses, nevents, closeVars>>

\* Sub-calls build() makes on the new Repr
BuildSubCalls ==
  (IF builder.icon THEN 1 ELSE 0) + (IF builder.tip THEN 1 ELSE 0)
    + Len(builder.menu_items)

\* WnaBuilder::build, every call answering Ok: the window thread runs, the
\* Repr holds the applied menu, the loop thread is started and the Handle
\* owning its JoinHandle is returned.  The builder is followed up to its
\* build() call only.
BuildOk ==
  /\ phase = "Builder"
  /\ LET r == ApplyItems([last |-> 0, acts |-> EmptyActions, menu |-> <<>>,
                          alloc |-> <<>>], TRUE, builder.menu_items)
     IN /\ last_menu_id' = r.last
        /\ actions' = r.acts
        /\ menu' = r.menu
        /\ allocated' = r.alloc
  /\ phase' = "Built"
  /\ window' = [handle |-> TRUE, thread |-> TRUE]
  /\ wthread' = "running"
  /\ balloon_action' = None
  /\ repr_alive' = TRUE
  /\ chan' = <<>>
  /\ receiver_alive' = TRUE
  /\ loop_pc' = "Recv"
  /\ orig' = "live"
  /\ builder' = [icon |-> FALSE, tip |-> FALSE, menu_items |-> <<>>]
  /\ Returns("build", "Ok")
  /\ UNCHANGED <<destroy_posts, shown, lockVars, loop_event, cb, taken,
                 invoked, cb_pc, clones, ncloses, nevents, closeVars>>

\* build() when Window::create fails: the window thread sends Err and ends,
\* `?` returns before a Repr exists.
BuildFailCreate ==
  /\ phase = "Builder"
  /\ phase' = "Failed"
  /\ wthread' = "exited"
  /\ Returns("build", "ErrCreate")
  /\ UNCHANGED <<builder, window, destroy_posts, menu, reprVars, repr_alive,
                 chanVars, lockVars, loopVars, cb_pc, handleVars, ncloses, nevents, closeVars>>

\* Variant of BuildFailSub with a bug: the Repr is not dropped when the
\* sub-call fails (it is already shared with a running owner, or
\* forgotten), so close() is not called.
BuildFailSubLeaked ==
  /\ phase = "Builder"
  /\ BuildSubCalls > 0
  /\ phase' = "Failed"
  /\ window' = [handle |-> TRUE, thread |-> TRUE]
  /\ wthread' = "running"
  /\ Returns("build", "ErrSurface")
  /\ UNCHANGED <<builder, destroy_posts, menu, reprVars, repr_alive, chanVars,
                 lockVars, loopVars, cb_pc, handleVars, ncloses, nevents,
                 closeVars>>

\* build() when a set_icon / set_tip / add_menu_item sub-call fails: `?`
\* returns, the local Repr is dropped (Drop for Repr -> close(): WM_DESTROY
\* posted, window thread joined, Quit sent), then the receiver is dropped.
BuildFailSub ==
  /\ phase = "Builder"
  /\ BuildSubCalls > 0
  /\ phase' = "Failed"
  /\ window' = [handle |-> FALSE, thread |-> FALSE]
  /\ wthread' = "exited"
  /\ destroy_posts' = destroy_posts + 1
  /\ Returns("build", "ErrSurface")
  /\ UNCHANGED <<builder, menu, reprVars, repr_alive, chanVars, lockVars,
                 loopVars, cb_pc, handleVars, ncloses, nevents,
                 closeVars>>

\* ------------------------------------------------ callers of Handle methods
\* t = "app": an application thread holding a Handle; t = "cb": the callback
\* the loop thread is running, on the Handle it was given.
CanCall(t) ==
  IF t = "app" THEN phase = "Built" /\ SomeHandle
  ELSE loop_pc = "Callback" /\ cb_pc = "start"

Returned(t) == IF t = "app" THEN UNCHANGED cb_pc ELSE cb_pc' = "done"

\* Variant of SetIcon with a bug: a rejected icon closes the window handle.
SetIconClosingOnError(t, ok) ==
  /\ CanCall(t) /\ lock = "free"
  /\ Returns("set_icon", WindowResult(window.handle, ok))
  /\ Returned(t)
  /\ window' = IF ok THEN window ELSE [window EXCEPT !.handle = FALSE]
  /\ UNCHANGED <<builderVars, wthread, destroy_posts, menu, reprVars,
                 repr_alive, chanVars, lockVars, loopVars, handleVars,
                 ncloses, nevents, closeVars>>

\* Wna::set_icon -> Repr::set_icon -> Window::set_icon
SetIcon(t, ok) ==
  /\ CanCall(t) /\ lock = "free"
  /\ Returns("set_icon", WindowResult(window.handle, ok))
  /\ Returned(t)
  /\ UNCHANGED <<builderVars, surfaceVars, reprVars, repr_alive, chanVars,
                 lockVars, loopVars, handleVars, ncloses, nevents, closeVars>>

\* Wna::set_tip -> Repr::set_tip -> Window::set_tip
SetTip(t, ok) ==
  /\ CanCall(t) /\ lock = "free"
  /\ Returns("set_tip", WindowResult(window.handle, ok))
  /\ Returned(t)
  /\ UNCHANGED <<builderVars, surfaceVars, reprVars, repr_alive, chanVars,
                 lockVars, loopVars, handleVars, ncloses, nevents, closeVars>>

\* Wna::add_menu_item -> Repr::add_menu_item
AddMenuItem(t, item, ok) ==
  /\ CanCall(t) /\ lock = "free"
  /\ LET r == ReprAddMenuItem([last |-> last_menu_id, acts |-> actions,
                               menu |-> menu, alloc |-> allocated],
                              window.handle, item, ok)
     IN /\ last_menu_id' = r.last
        /\ actions' = r.acts
        /\ menu' = r.menu
        /\ allocated' = r.alloc
        /\ Returns("add_menu_item", r.res)
  /\ Returned(t)
  /\ UNCHANGED <<builderVars, window, wthread, destroy_posts, balloon_action,
                 shown, repr_alive, chanVars, lockVars, loopVars, handleVars,
                 ncloses, nevents, closeVars>>

\* Wna::show_balloon -> Repr::show_balloon
ShowBalloon(t, action, ok) ==
  /\ CanCall(t) /\ lock = "free"
  /\ LET res == WindowResult(window.handle, ok)
     IN /\ balloon_action' = IF res = "Ok" THEN balloon_set(balloon_action, action)
                             ELSE balloon_action
        /\ shown' = IF res = "Ok" THEN Append(shown, action) ELSE shown
        /\ ReturnsOf("show_balloon", res, action)
  /\ Returned(t)
  /\ UNCHANGED <<builderVars, surfaceVars, last_menu_id, actions, allocated,
                 repr_alive, chanVars, lockVars, loopVars, handleVars, ncloses,
                 nevents, closeVars>>

\* Wna::close up to the join inside Window::close: the lock is taken,
\* WM_DESTROY is posted if the handle is Some, the handle becomes None.
CloseBegin(t) ==
  /\ CanCall(t) /\ lock = "free" /\ closing = "none"
  /\ lock' = t
  /\ closing' = t
  /\ destroy_posts' = destroy_posts + (IF window.handle THEN 1 ELSE 0)
  /\ window' = [window EXCEPT !.handle = HandleAfterClose]
  /\ close_called' = TRUE
  /\ ncloses' = IF t = "app" THEN ncloses + 1 ELSE ncloses
  /\ Silent
  /\ UNCHANGED <<builderVars, wthread, menu, reprVars, repr_alive, chanVars,
                 loopVars, cb_pc, handleVars, nevents,
                 close_returned>>

\* Variant of CloseEnd with a bug: the window thread is not joined before
\* Quit is sent.
CloseEndWithoutJoin(t) ==
  /\ closing = t
  /\ window' = [window EXCEPT !.thread = FALSE]
  /\ chan' = send_quit(chan, receiver_alive)
  /\ lock' = "free"
  /\ closing' = "none"
  /\ close_returned' = TRUE
  /\ Returns("close", "Ok")
  /\ Returned(t)
  /\ UNCHANGED <<builderVars, wthread, destroy_posts, menu, reprVars,
                 repr_alive, receiver_alive, loopVars, handleVars, ncloses,
                 nevents, close_called>>

\* The rest of Wna::close: thread.take() is joined (the call waits for the
\* window thread to end), Quit is sent (a failed send is ignored), Ok(()) is
\* returned and the lock released.
CloseEnd(t) ==
  /\ closing = t
  /\ window.thread => wthread = "exited"
  /\ window' = [window EXCEPT !.thread = FALSE]
  /\ chan' = send_quit(chan, receiver_alive)
  /\ lock' = "free"
  /\ closing' = "none"
  /\ close_returned' = TRUE
  /\ Returns("close", "Ok")
  /\ Returned(t)
  /\ UNCHANGED <<builderVars, wthread, destroy_posts, menu, reprVars,
                 repr_alive, receiver_alive, loopVars, handleVars, ncloses,
                 nevents, close_called>>

\* ------------------------------------------------------- dropping the Repr
\* Releasing an Arc<Mutex<Repr>>: o, c, lp are the Handles and the loop
\* position after the release, q and rcv the queue and the receiver then.
\* When the strong count reaches 0 the Repr is dropped: Drop for Repr calls
\* close() (WM_DESTROY posted if the handle is Some, window thread joined,
\* Quit sent), then the fields (the event_sender) are dropped.
ArcRelease(o, c, lp, q, rcv) ==
  IF repr_alive /\ StrongCount(o, c, lp) = 0
  THEN /\ repr_alive' = FALSE
       /\ destroy_posts' = destroy_posts + (IF window.handle THEN 1 ELSE 0)
       /\ window' = [handle |-> FALSE, thread |-> FALSE]
       /\ wthread' = IF window.thread THEN "exited" ELSE wthread
       /\ chan' = send_quit(q, rcv)
  ELSE /\ chan' = q
       /\ UNCHANGED <<repr_alive, destroy_posts, window, wthread>>

\* ------------------------------------------------------- the dispatch loop
SendersAlive == repr_alive \/ wthread = "running"

\* Variant of LoopRecv with a bug: Quit does not end the loop, which goes on
\* to the next recv().
LoopRecvPastQuit ==
  /\ loop_pc = "Recv"
  /\ chan # <<>> \/ ~SendersAlive
  /\ IF chan # <<>>
     THEN /\ loop_pc' = IF Head(chan).kind = "Quit" THEN "Recv" ELSE "Lookup"
          /\ loop_event' = Head(chan)
          /\ chan' = Tail(chan)
          /\ invoked' = <<>>
          /\ UNCHANGED <<receiver_alive, repr_alive, destroy_posts, window, wthread>>
     ELSE /\ loop_pc' = "Terminated"
          /\ loop_event' = NoEvent
          /\ invoked' = <<>>
          /\ receiver_alive' = FALSE
          /\ ArcRelease(orig, clones, "Terminated", <<>>, FALSE)
  /\ Silent
  /\ UNCHANGED <<builderVars, menu, reprVars, lockVars, cb, taken, cb_pc,
                 handleVars, ncloses, nevents, closeVars>>

\* receiver.recv(): blocks while the queue is empty and a Sender exists.
\* Menu and Balloon go on to the lookup; Quit and Err(_) return from the
\* closure, which drops the receiver (with what is queued) and the Arc.
LoopRecv ==
  /\ loop_pc = "Recv"
  /\ chan # <<>> \/ ~SendersAlive
  /\ IF chan # <<>> /\ Head(chan).kind # "Quit"
     THEN /\ loop_pc' = "Lookup"
          /\ loop_event' = Head(chan)
          /\ chan' = Tail(chan)
          /\ invoked' = <<>>
          /\ UNCHANGED <<receiver_alive, repr_alive, destroy_posts, window, wthread>>
     ELSE /\ loop_pc' = "Terminated"
          /\ loop_event' = IF chan # <<>> THEN Head(chan) ELSE NoEvent
          /\ invoked' = <<>>
          /\ receiver_alive' = FALSE
          /\ ArcRelease(orig, clones, "Terminated", <<>>, FALSE)
  /\ Silent
  /\ UNCHANGED <<builderVars, menu, reprVars, lockVars, cb, taken, cb_pc,
                 handleVars, ncloses, nevents, closeVars>>

\* Event::Menu(id) / Event::Balloon: under the lock the action is copied out
\* of the map, or taken out of the balloon slot; then, if there is one, it
\* is called with a new Wna { thread: None }.
LoopLookup ==
  /\ loop_pc = "Lookup"
  /\ lock = "free"
  /\ LET balloon == loop_event.kind = "Balloon"
         action == IF balloon THEN balloon_action
                   ELSE actions_get(actions, loop_event.id)
     IN /\ balloon_action' = IF balloon THEN balloon_take_rest(balloon_action)
                             ELSE balloon_action
        /\ shown' = IF balloon THEN <<>> ELSE shown
        /\ taken' = IF balloon THEN shown ELSE taken
        /\ IF action # None
           THEN /\ loop_pc' = "Callback"
                /\ cb' = action
                /\ cb_pc' = "start"
                /\ invoked' = Append(invoked, action)
           ELSE /\ loop_pc' = "Recv"
                /\ UNCHANGED <<cb, cb_pc, invoked>>
  /\ lock' = LockAfterLookup
  /\ Silent
  /\ UNCHANGED <<builderVars, surfaceVars, last_menu_id, actions, allocated,
                 repr_alive, chanVars, closing, loop_event, handleVars, ncloses, nevents, closeVars>>

\* The body of the callback, on the loop thread (examples/menu.rs): quit
\* calls close, add_item adds an entry, the others only print.
CbQuit == cb = "quit" /\ CloseBegin("cb")

CbQuitEnd == CloseEnd("cb")

CbAddItem(ok) == cb = "add_item" /\ AddMenuItem("cb", ActionItem("println"), ok)

CbPrintln ==
  /\ loop_pc = "Callback" /\ cb_pc = "start" /\ cb = "println"
  /\ cb_pc' = "done"
  /\ Silent
  /\ UNCHANGED <<builderVars, surfaceVars, reprVars, repr_alive, chanVars,
                 lockVars, loopVars, handleVars, ncloses, nevents, closeVars>>

\* Variant of CbReturn with a bug: the loop does not wait for the callback
\* to return before it goes back to recv().
CbReturnEarly ==
  /\ loop_pc = "Callback"
  /\ loop_pc' = "Recv"
  /\ cb' = None
  /\ loop_event' = NoEvent
  /\ taken' = <<>>
  /\ invoked' = <<>>
  /\ Silent
  /\ UNCHANGED <<builderVars, surfaceVars, reprVars, repr_alive, chanVars,
                 lockVars, cb_pc, handleVars, ncloses, nevents, closeVars>>

\* action(&mut wna) returns: wna is dropped (the loop's own Arc remains) and
\* the loop goes back to recv().
CbReturn ==
  /\ loop_pc = "Callback" /\ cb_pc = "done"
  /\ loop_pc' = "Recv"
  /\ cb' = None
  /\ loop_event' = NoEvent
  /\ taken' = <<>>
  /\ invoked' = <<>>
  /\ Silent
  /\ UNCHANGED <<builderVars, surfaceVars, reprVars, repr_alive, chanVars,
                 lockVars, cb_pc, handleVars, ncloses, nevents, closeVars>>

\* ------------------------------------------------------- the window thread
\* window_proc on WM_COMMAND / NIN_BALLOONUSERCLICK: the event is sent; when
\* the send fails (receiver gone) WM_DESTROY is posted instead.
WindowEvent(e) ==
  /\ wthread = "running"
  /\ nevents < MaxEvents
  /\ nevents' = nevents + 1
  /\ IF receiver_alive
     THEN chan' = Append(chan, e) /\ UNCHANGED destroy_posts
     ELSE destroy_posts' = destroy_posts + 1 /\ UNCHANGED chan
  /\ Silent
  /\ UNCHANGED <<builderVars, window, wthread, menu, reprVars, repr_alive,
                 receiver_alive, lockVars, loopVars, cb_pc, handleVars, ncloses, closeVars>>

\* window_proc on WM_DESTROY: PostQuitMessage, GetMessageW answers 0, the
\* message loop and the thread end (its Sender is dropped).
WindowExit ==
  /\ wthread = "running"
  /\ destroy_posts > 0
  /\ wthread' = "exited"
  /\ Silent
  /\ UNCHANGED <<builderVars, window, destroy_posts, menu, reprVars,
                 repr_alive, chanVars, lockVars, loopVars, cb_pc, handleVars,
                 ncloses, nevents, closeVars>>

\* window_message_loop when GetMessageW answers -1: return.
WindowLoopError ==
  /\ wthread = "running"
  /\ destroy_posts = 0
  /\ wthread' = "exited"
  /\ Silent
  /\ UNCHANGED <<builderVars, window, destroy_posts, menu, reprVars,
                 repr_alive, chanVars, lockVars, loopVars, cb_pc, handleVars,
                 ncloses, nevents, closeVars>>

\* ------------------------------------------------------------- the Handles
\* Clone for Wna
Clone ==
  /\ phase = "Built" /\ SomeHandle
  /\ clones < MaxClones
  /\ clones' = clones + 1
  /\ Silent
  /\ UNCHANGED <<builderVars, surfaceVars, reprVars, repr_alive, chanVars,
                 lockVars, loopVars, cb_pc, orig, ncloses, nevents, closeVars>>

\* A clone goes out of scope.
DropClone ==
  /\ clones > 0
  /\ clones' = clones - 1
  /\ ArcRelease(orig, clones - 1, loop_pc, chan, receiver_alive)
  /\ Silent
  /\ UNCHANGED <<builderVars, menu, reprVars, receiver_alive, lockVars,
                 loopVars, cb_pc, orig, ncloses, nevents,
                 closeVars>>

\* The original Handle goes out of scope (its JoinHandle is detached).
DropOrig ==
  /\ orig = "live"
  /\ orig' = "dropped"
  /\ ArcRelease("dropped", clones, loop_pc, chan, receiver_alive)
  /\ Silent
  /\ UNCHANGED <<builderVars, menu, reprVars, receiver_alive, lockVars,
                 loopVars, cb_pc, clones, ncloses, nevents,
                 closeVars>>

\* join_event_loop(self) on the original: self.thread is Some, thread.join()
\* is entered.
JoinBegin ==
  /\ orig = "live"
  /\ orig' = "joining"
  /\ Silent
  /\ UNCHANGED <<builderVars, surfaceVars, reprVars, repr_alive, chanVars,
                 lockVars, loopVars, cb_pc, clones, ncloses, nevents, closeVars>>

\* thread.join() returns, then self is dropped.
JoinReturn ==
  /\ orig = "joining"
  /\ JoinMayReturn(TRUE, loop_pc = "Terminated")
  /\ orig' = "joined"
  /\ Returns("join", "Unit")
  /\ ArcRelease("joined", clones, loop_pc, chan, receiver_alive)
  /\ UNCHANGED <<builderVars, menu, reprVars, receiver_alive, lockVars,
                 loopVars, cb_pc, clones, ncloses, nevents, closeVars>>

\* join_event_loop(self) on a clone: self.thread is None; self is dropped.
JoinClone ==
  /\ clones > 0
  /\ JoinMayReturn(CloneThread, loop_pc = "Terminated")
  /\ clones' = clones - 1
  /\ Returns("join_clone", "Unit")
  /\ ArcRelease(orig, clones - 1, loop_pc, chan, receiver_alive)
  /\ UNCHANGED <<builderVars, menu, reprVars, receiver_alive, lockVars,
                 loopVars, cb_pc, orig, ncloses, nevents, closeVars>>

\* ------------------------------------------------------------------- Next
AppSetIcon == \E ok \in BOOLEAN : SetIcon("app", ok)

AppSetTip == \E ok \in BOOLEAN : SetTip("app", ok)

AppAddMenuItem ==
  /\ Len(allocated) < MaxIds
  /\ \E item \in AppItems, ok \in BOOLEAN : AddMenuItem("app", item, ok)

AppShowBalloon ==
  /\ Len(shown) < MaxShown
  /\ \E c \in BalloonActions, ok \in BOOLEAN : ShowBalloon("app", c, ok)

AppCloseBegin == ncloses < MaxCloses /\ CloseBegin("app")

AppCloseEnd == CloseEnd("app")

CbAddItemStep == \E ok \in BOOLEAN : CbAddItem(ok)

BuilderMenuItemStep == \E item \in BuilderItems : BuilderMenuItem(item)

WindowEventStep ==
  \E e \in {MenuEvent(i) : i \in EventIds} \cup {BalloonEvent} : WindowEvent(e)

BuilderNext ==
  \/ BuilderIcon
  \/ BuilderTip
  \/ BuilderMenuItemStep
  \/ BuildOk
  \/ BuildFailCreate
  \/ BuildFailSub

RunNext ==
  \/ AppSetIcon
  \/ AppSetTip
  \/ AppAddMenuItem
  \/ AppShowBalloon
  \/ AppCloseBegin
  \/ AppCloseEnd
  \/ LoopRecv
  \/ LoopLookup
  \/ CbQuit
  \/ CbQuitEnd
  \/ CbAddItemStep
  \/ CbPrintln
  \/ CbReturn
  \/ WindowEventStep
  \/ WindowExit
  \/ WindowLoopError
  \/ Clone
  \/ DropClone
  \/ DropOrig
  \/ JoinBegin
  \/ JoinReturn
  \/ JoinClone

Next == BuilderNext \/ RunNext

Spec == Init /\ [][Next]_vars

\* The threads of the program are scheduled fairly: the loop thread (with
\* the callback it runs), the window thread, and a thread that is inside
\* close() or join_event_loop() eventually takes its next step.
Fairness ==
  /\ WF_vars(LoopRecv)
  /\ WF_vars(LoopLookup)
  /\ WF_vars(CbQuit)
  /\ WF_vars(CbQuitEnd)
  /\ WF_vars(CbAddItemStep)
  /\ WF_vars(CbPrintln)
  /\ WF_vars(CbReturn)
  /\ WF_vars(WindowExit)
  /\ WF_vars(AppCloseEnd)
  /\ WF_vars(JoinReturn)

FairSpec == Spec /\ Fairness

\* A Handle built with the one entry Action(add_item), which got id 0, and
\* on which add_menu_item(&MenuItem::Separator) has been called 4294967294
\* times since, each call rejected by the popup menu: last_menu_id is
\* u32::MAX, nothing else has changed since build().  Of the ids handed out
\* so far, allocated keeps the builder's 0 (the rejected ids 1 .. u32::MAX - 1
\* in between are left out).
InitHighIds ==
  /\ builder = [icon |-> FALSE, tip |-> FALSE, menu_items |-> <<>>]
  /\ phase = "Built"
  /\ window = [handle |-> TRUE, thread |-> TRUE]
  /\ wthread = "running"
  /\ destroy_posts = 0
  /\ menu = <<[id |-> 0, kind |-> "Action"]>>
  /\ last_menu_id = U32Max
  /\ actions = [k \in {0} |-> "add_item"]
  /\ balloon_action = None
  /\ repr_alive = TRUE
  /\ chan = <<>>
  /\ receiver_alive = TRUE
  /\ lock = "free"
  /\ closing = "none"
  /\ loop_pc = "Recv"
  /\ loop_event = NoEvent
  /\ cb = None
  /\ cb_pc = "done"
  /\ orig = "live"
  /\ clones = 0
  /\ ncloses = 0
  /\ nevents = 0
  /\ ret = NoRet
  /\ allocated = <<0>>
  /\ shown = <<>>
  /\ taken = <<>>
  /\ invoked = <<>>
  /\ close_called = FALSE
  /\ close_returned = FALSE

HighIdsSpec == InitHighIds /\ [][RunNext]_vars

\* ===================================================================
\* Properties
\* ===================================================================
Last(q) == q[Len(q)]
QuitsQueued == Len(SelectSeq(chan, LAMBDA e : e.kind = "Quit"))
Mutators == {"set_icon", "set_tip", "add_menu_item", "show_balloon"}
\* The step is the lookup the loop makes for the event it dequeued.
LookupStep == loop_pc = "Lookup" /\ loop_pc' # "Lookup"

\* C1: while the loop thread runs a callback, the lock is not held by the
\* dispatch code: it is free, held by an application thread, or held by
\* the Handle call the callback itself is making.
C1_NoLockWhileCallback ==
  loop_pc = "Callback" =>
    \/ lock \in {"free", "app"}
    \/ lock = "cb" /\ closing = "cb"

\* The add_item callback has returned from its add_menu_item call and an
\* application thread holds the lock while the callback is still running.
C1_Witness ==
  /\ loop_pc = "Callback" /\ cb = "add_item" /\ cb_pc = "done"
  /\ lock = "app"
  /\ last_menu_id = Len(allocated) /\ Len(allocated) >= 1

\* C2: the lookup of a Menu(i) event whose id is a key of the action map
\* calls exactly the callback registered under i, once: the loop enters the
\* callback actions[i], and the callbacks invoked for the event never become
\* more than that one.
C2_MenuDispatch ==
  /\ [](Len(invoked) <= 1 /\ (loop_pc = "Callback" <=> invoked = <<cb>>))
  /\ [][(LookupStep /\ loop_event.kind = "Menu" /\ loop_event.id \in DOMAIN actions)
          => /\ loop_pc' = "Callback"
             /\ cb' = actions[loop_event.id]
             /\ invoked' = <<actions[loop_event.id]>>]_vars

\* A Menu event is being dispatched to its callback while the map holds a
\* different callback under another id.
C2_Witness ==
  /\ loop_pc = "Callback" /\ loop_event.kind = "Menu"
  /\ loop_event.id \in DOMAIN actions
  /\ invoked = <<actions[loop_event.id]>>
  /\ \E k \in DOMAIN actions : actions[k] # cb

\* A Menu(0) event is queued for a running loop whose action map holds the
\* quit callback (it calls close()) under id 0.
QuitSelected ==
  /\ loop_pc \in {"Recv", "Lookup", "Callback"}
  /\ actions_get(actions, 0) = "quit"
  /\ \E i \in 1 .. Len(chan) : chan[i] = MenuEvent(0)

\* C3: end to end, under fair scheduling: once Menu(0) is queued for a loop
\* that maps id 0 to the quit callback, the loop comes to run quit for that
\* event (as the one callback of the event), and it comes to be Terminated
\* with the original Handle's join_event_loop(), if entered, returned.
C3_QuitLeadsToJoin ==
  /\ QuitSelected ~>
       (/\ loop_pc = "Callback" /\ loop_event = MenuEvent(0)
        /\ cb = "quit" /\ invoked = <<"quit">>)
  /\ QuitSelected ~> (loop_pc = "Terminated" /\ orig # "joining")

\* The scenario has run to its end: no application thread called close(),
\* the quit callback did, the loop ended on Quit and the original Handle's
\* join_event_loop() has returned.
C3_Witness ==
  /\ ncloses = 0 /\ close_returned
  /\ actions_get(actions, 0) = "quit"
  /\ loop_pc = "Terminated" /\ loop_event = QuitEvent
  /\ orig = "joined"

\* Handles that own the JoinHandle of the loop thread
JoinOwners ==
  (IF orig \in {"live", "joining"} THEN 1 ELSE 0)
    + (IF CloneThread THEN clones ELSE 0)

\* C4: join_event_loop() on the original Handle has returned only if the
\* loop has ended on a Quit sent by a close() that returned; a clone's
\* join_event_loop() can return at once in every state, and leaves the
\* original Handle as it is; at most one Handle owns the JoinHandle.
C4_JoinWaitsOnlyOnOriginal ==
  /\ [](orig = "joined" =>
          loop_pc = "Terminated" /\ loop_event = QuitEvent /\ close_returned)
  /\ [](clones > 0 => ENABLED JoinClone)
  /\ [](JoinOwners <= 1)
  /\ [][ret'.op = "join_clone" => orig' = orig]_vars

\* A clone's join_event_loop() has just returned while the loop is running
\* and the original Handle is still blocked in its join_event_loop().
C4_Witness ==
  /\ ret.op = "join_clone"
  /\ loop_pc = "Recv"
  /\ orig = "joining"

\* C5: when the original Handle and every clone are dropped and close() was
\* never called, the window is destroyed and Quit is sent (so that the loop
\* ends).
C5_ImplicitCloseOnLastDrop ==
  (phase = "Built" /\ orig = "dropped" /\ clones = 0 /\ ~close_called) =>
    /\ ~window.handle
    /\ destroy_posts > 0
    /\ QuitsQueued > 0 \/ loop_pc = "Terminated"

\* The step is part of a close() made after an earlier close() returned.
SecondCloseStep == close_returned /\ closing' # closing

\* C6 as stated: a second close() returns no error and changes neither the
\* surface, nor the Repr, nor the event channel.
C6_SecondCloseChangesNothing ==
  [][SecondCloseStep =>
       /\ UNCHANGED <<window, wthread, destroy_posts, menu, last_menu_id,
                      actions, balloon_action, chan, receiver_alive>>
       /\ ret'.op = "close" => ret'.res = "Ok"]_vars

\* C6 amended: a second close() returns no error and changes neither the
\* surface nor the Repr; on the channel it sends one more Quit, which is
\* queued when the receiver still exists.
C6_SecondCloseOnlySendsQuit ==
  [][SecondCloseStep =>
       /\ UNCHANGED <<window, wthread, destroy_posts, menu, last_menu_id,
                      actions, balloon_action, receiver_alive>>
       /\ ret'.op = "close" => ret'.res = "Ok"
       /\ chan' = IF closing = "none" \/ ~receiver_alive THEN chan
                  ELSE Append(chan, QuitEvent)]_vars

\* A second close() has just returned: two Quit events are queued.
C6_Witness ==
  /\ ret.op = "close" /\ ret.res = "Ok"
  /\ QuitsQueued >= 2
  /\ destroy_posts = 1

\* C7: once a close() has returned, every set_icon, set_tip, add_menu_item
\* and show_balloon call returns the closed-window error and changes
\* neither the action map nor the pending balloon callback.
C7_MutatorsFailAfterClose ==
  [][(close_returned /\ ret'.op \in Mutators) =>
       /\ ret'.res = "ErrClosed"
       /\ actions' = actions
       /\ balloon_action' = balloon_action]_vars

\* add_menu_item(Action) has just failed on a closed Handle: the id is
\* consumed, the map is without it.
C7_Witness ==
  /\ close_returned
  /\ ret.op = "add_menu_item" /\ ret.res = "ErrClosed"
  /\ allocated # <<>> /\ Last(allocated) \notin DOMAIN actions

\* C8: the ids handed out by next_menu_id are strictly increasing (as u32)
\* in allocation order, so none is handed out twice.
C8_IdsStrictlyIncreasing ==
  \A i, j \in 1 .. Len(allocated) : i < j => ULess(allocated[i], allocated[j])

\* C9: the balloon slot holds the callback of the last successful
\* show_balloon since the slot was last taken (nothing when there was
\* none), and the callback a Balloon event invokes is that one, once: of two
\* callbacks shown before the click only the second is invoked.
C9_LastBalloonWins ==
  /\ balloon_action = (IF shown = <<>> THEN None ELSE Last(shown))
  /\ (loop_pc = "Callback" /\ loop_event.kind = "Balloon") =>
       taken # <<>> /\ invoked = <<Last(taken)>>

\* A Balloon event is being dispatched after two show_balloon calls with
\* different callbacks: the second is running, the slot is empty.
C9_Witness ==
  /\ loop_pc = "Callback" /\ loop_event.kind = "Balloon"
  /\ Len(taken) = 2 /\ taken[1] # taken[2]
  /\ invoked = <<taken[2]>>
  /\ balloon_action = None

\* C10: the lookup of a Menu(id) event whose id is not a key of the action
\* map invokes no callback, changes neither the Repr, nor the surface, nor
\* the channel, returns no error to anyone, and leaves the loop in recv().
C10_UnknownIdIsDropped ==
  [][(LookupStep /\ loop_event.kind = "Menu" /\ loop_event.id \notin DOMAIN actions)
       => /\ loop_pc' = "Recv"
          /\ invoked' = <<>> /\ cb' = cb
          /\ ret' = NoRet
          /\ UNCHANGED <<window, wthread, destroy_posts, menu, last_menu_id,
                         actions, balloon_action, chan, receiver_alive,
                         repr_alive>>]_vars

\* The loop is back in recv() after it dropped Menu(id) for the id of a
\* separator, while the map holds a callback under another id.
C10_Witness ==
  /\ loop_pc = "Recv" /\ loop_event.kind = "Menu" /\ invoked = <<>>
  /\ loop_event.id \notin DOMAIN actions
  /\ \E i \in 1 .. Len(menu) :
       menu[i] = [id |-> loop_event.id, kind |-> "Separator"]
  /\ DOMAIN actions # {}

\* C11: callbacks run one at a time on the loop thread: a callback starts
\* only when none is running, while one runs it is the only one invoked for
\* the event in hand, and the loop takes the next event off the channel (or
\* ends) only from recv(), after the callback before has returned.
C11_CallbacksSequential ==
  /\ [](loop_pc = "Callback" => (cb # None /\ invoked = <<cb>>))
  /\ [](cb_pc = "start" => loop_pc = "Callback")
  /\ [][(cb_pc # "start" /\ cb_pc' = "start") => cb = None]_vars
  /\ [][(loop_pc # loop_pc' /\ loop_pc' \in {"Lookup", "Terminated"})
          => (loop_pc = "Recv" /\ cb = None /\ cb_pc = "done")]_vars

\* A callback is in the middle of its body while an event waits in the
\* channel: it is not read.
C11_Witness ==
  /\ loop_pc = "Callback" /\ cb_pc = "start"
  /\ chan # <<>>

\* C12: every Handle of one build works on the one Repr: the ids that
\* add_menu_item calls obtain, whichever Handle and thread makes them, come
\* from the one counter and are pairwise different, and the callback a
\* balloon click runs is the one last registered, whoever registered it.
C12_OneSharedState ==
  /\ \A i, j \in 1 .. Len(allocated) : i # j => allocated[i] # allocated[j]
  /\ (loop_pc = "Callback" /\ loop_event.kind = "Balloon") => cb = Last(taken)

\* The step is a build() that returns a Handle.
BuildStep == phase = "Builder" /\ phase' = "Built"

\* C13: a build() that succeeds leaves last_menu_id at the number of
\* entries supplied, no pending balloon callback, the k-th supplied entry
\* (from 0, separators counted) in the menu under id k, and an action map
\* whose keys are exactly the ids of the Action entries, each with the
\* callback of its entry.
C13_BuildAppliesInOrder ==
  [][BuildStep =>
       LET items == builder.menu_items
           n == Len(items)
       IN /\ last_menu_id' = n
          /\ balloon_action' = None
          /\ allocated' = [k \in 1 .. n |-> k - 1]
          /\ menu' = [k \in 1 .. n |-> [id |-> k - 1, kind |-> items[k].kind]]
          /\ DOMAIN actions' = {k - 1 : k \in {j \in 1 .. n : items[j].kind = "Action"}}
          /\ \A k \in 1 .. n :
               items[k].kind = "Action" => actions'[k - 1] = items[k].action]_vars

\* build() has just returned for a separator followed by an Action entry.
C13_Witness ==
  /\ phase = "Built" /\ ~close_called /\ nevents = 0
  /\ menu = <<[id |-> 0, kind |-> "Separator"], [id |-> 1, kind |-> "Action"]>>
  /\ last_menu_id = 2
  /\ DOMAIN actions = {1} /\ actions[1] = "quit"

\* C14 as stated: after any show_balloon(title, body, cb) call has returned,
\* the balloon slot holds cb.
C14_SlotHoldsCallbackAfterAnyCall ==
  [][ret'.op = "show_balloon" => balloon_action' = ret'.arg]_vars

\* C14 amended: after a show_balloon(title, body, cb) call that returned
\* Ok the balloon slot holds cb, whatever it held before; a call that
\* returned an error has left the slot as it was.
C14_SlotHoldsCallbackAfterOk ==
  [][ret'.op = "show_balloon" =>
       balloon_action' = (IF ret'.res = "Ok" THEN ret'.arg ELSE balloon_action)]_vars

\* show_balloon has just returned Ok for a callback other than the one that
\* was pending: the slot holds the new one.
C14_Witness ==
  /\ ret.op = "show_balloon" /\ ret.res = "Ok"
  /\ Len(shown) = 2 /\ shown[1] # shown[2]
  /\ balloon_action = ret.arg /\ ret.arg = shown[2]

\* C15: an add_menu_item call that returns an error (the popup menu
\* rejected the insert, or the window is closed) has consumed its id:
\* last_menu_id is one larger (as u32) than before, the id handed out is the
\* value before; the action map and the menu are as before.
C15_RejectedInsertConsumesId ==
  [][(ret'.op = "add_menu_item" /\ ret'.res # "Ok") =>
       /\ ULess(last_menu_id, last_menu_id')
       /\ last_menu_id' - last_menu_id = 1
       /\ allocated' = Append(allocated, last_menu_id)
       /\ actions' = actions
       /\ menu' = menu
       /\ ret'.res \in {"ErrSurface", "ErrClosed"}]_vars

\* C16: every key of the action map is an id handed out before (as u32 it
\* is below last_menu_id, and it is in the allocation history) that the
\* popup menu accepted as an Action entry; no id the menu holds as a
\* separator is a key.
C16_KeysAreAcceptedActionIds ==
  \A k \in DOMAIN actions :
    /\ ULess(k, last_menu_id)
    /\ \E i \in 1 .. Len(allocated) : allocated[i] = k
    /\ \E i \in 1 .. Len(menu) : menu[i] = [id |-> k, kind |-> "Action"]
    /\ \A i \in 1 .. Len(menu) : menu[i].id = k => menu[i].kind = "Action"

\* C17: the loop that has taken a Quit off the channel is Terminated, and a
\* Terminated loop stays Terminated: it takes nothing more off the channel
\* and no callback is invoked or running, whatever was queued behind the
\* Quit or is sent later.
C17_TerminatedIsFinal ==
  /\ [](loop_event = QuitEvent => loop_pc = "Terminated")
  /\ [](loop_pc = "Terminated" =>
          (cb = None /\ cb_pc = "done" /\ invoked = <<>> /\ ~receiver_alive))
  /\ [][loop_pc = "Terminated" =>
          (loop_pc' = "Terminated" /\ loop_event' = loop_event /\ cb' = cb
           /\ invoked' = invoked /\ chan' = <<>>)]_vars

\* The loop has ended on Quit while a balloon callback was pending, and a
\* Handle call has been made since: the callback is still in the slot, not
\* invoked.
C17_Witness ==
  /\ loop_pc = "Terminated" /\ loop_event = QuitEvent
  /\ balloon_action # None /\ nevents > 0
  /\ ret.op \in Mutators

\* C18: the loop ends only by taking a Quit that a close() call sent: while
\* it runs the Repr, and with it a Sender, exists, so recv() never fails;
\* a Terminated loop has ended on Quit after a close() call; and as long as
\* close() has not been called the loop has not ended and
\* join_event_loop() on the original Handle has not returned.
C18_LoopEndsOnlyOnQuit ==
  /\ loop_pc \in {"Recv", "Lookup", "Callback"} => (repr_alive /\ receiver_alive)
  /\ loop_pc = "Terminated" => (loop_event = QuitEvent /\ close_called)
  /\ ~close_called => (loop_pc # "Terminated" /\ orig # "joined")

\* close() was never called, the window thread has ended by itself and
\* every event has been dispatched: the loop is still in recv() and the
\* original Handle is still blocked in join_event_loop().
C18_Witness ==
  /\ ~close_called /\ wthread = "exited" /\ chan = <<>>
  /\ nevents > 0 /\ clones = 0
  /\ loop_pc = "Recv"
  /\ orig = "joining"

\* C19: the lookup of a Balloon event takes the pending callback out of the
\* slot in the one step it makes under the lock: with a callback pending,
\* that callback is the one invoked and the slot (with the registrations
\* behind it) is empty afterwards, so a registration is invoked at most
\* once; with none pending nothing is invoked and the loop is back in
\* recv().  The slot is filled only by a show_balloon call that returns Ok.
C19_BalloonTakenOnce ==
  /\ [][(LookupStep /\ loop_event.kind = "Balloon") =>
          /\ lock = "free"
          /\ balloon_action' = None /\ shown' = <<>>
          /\ IF balloon_action # None
             THEN /\ loop_pc' = "Callback"
                  /\ cb' = balloon_action /\ invoked' = <<balloon_action>>
                  /\ taken' = shown /\ Len(shown) >= 1
             ELSE /\ loop_pc' = "Recv"
                  /\ cb' = cb /\ invoked' = <<>>]_vars
  /\ [][(balloon_action = None /\ balloon_action' # None) =>
          (ret'.op = "show_balloon" /\ ret'.res = "Ok"
           /\ ret'.arg = balloon_action')]_vars

\* A Balloon event was dispatched while no callback was pending: nothing
\* was invoked and the loop is back in recv(), running.
C19_Witness ==
  /\ loop_pc = "Recv" /\ loop_event = BalloonEvent
  /\ balloon_action = None /\ shown = <<>>
  /\ cb = None /\ invoked = <<>>
  /\ ~close_called

\* C20: a set_icon or set_tip call, accepted or rejected, changes neither
\* last_menu_id, nor the action map, nor the pending balloon callback; it
\* returns Ok or the error of the surface (or of the closed window), and it
\* leaves the window handle, the menu, the channel, the lock and the loop
\* as they were, so that the Handle can be used as before.
C20_IconAndTipKeepState ==
  [][ret'.op \in {"set_icon", "set_tip"} =>
       /\ UNCHANGED <<last_menu_id, actions, balloon_action>>
       /\ ret'.res \in {"Ok", "ErrSurface", "ErrClosed"}
       /\ ret'.res = "ErrClosed" <=> ~window.handle
       /\ UNCHANGED <<window, wthread, menu, chan, receiver_alive, repr_alive,
                      lock, loop_pc>>]_vars

\* set_tip has just been rejected by the surface on an open Handle that
\* has a menu entry with a callback and a pending balloon callback.
C20_Witness ==
  /\ ret.op = "set_tip" /\ ret.res = "ErrSurface"
  /\ window.handle
  /\ DOMAIN actions # {} /\ balloon_action # None
  /\ last_menu_id = Len(allocated) /\ last_menu_id > 0

\* C21: a thread inside close() holds the lock until the call returns, and
\* a Quit is put on the channel only when the window thread has ended; so
\* in the channel no Menu or Balloon event is behind a Quit, and once a
\* close() has returned the window thread produces no event any more.
C21_EventsPrecedeQuit ==
  /\ [](closing # "none" => lock = closing)
  /\ [](\A i, j \in 1 .. Len(chan) :
          (i < j /\ chan[i].kind = "Quit") => chan[j].kind = "Quit")
  /\ [][QuitsQueued' > QuitsQueued =>
          (closing # "none" /\ lock = closing /\ wthread = "exited")]_vars
  /\ [](close_returned => wthread = "exited")
  /\ [][close_returned => nevents' = nevents]_vars

\* close() has returned while an event the window thread produced before
\* it ended is still queued: the Quit is behind that event.
C21_Witness ==
  /\ close_returned /\ wthread = "exited"
  /\ Len(chan) = 2
  /\ chan[1].kind \in {"Menu", "Balloon"} /\ chan[2] = QuitEvent

\* C22: a build() that fails in a set_icon, set_tip or add_menu_item
\* sub-call returns no Handle and starts no loop thread, and the Repr it
\* had made is dropped, which closes the window: WM_DESTROY is posted and
\* the window thread has ended when build() returns; nothing of it runs
\* afterwards.
C22_FailedBuildTearsDown ==
  /\ [][(ret'.op = "build" /\ ret'.res = "ErrSurface") =>
          /\ BuildSubCalls > 0
          /\ phase' = "Failed"
          /\ orig' = "none" /\ clones' = 0
          /\ loop_pc' = "NotStarted"
          /\ ~window'.handle /\ ~window'.thread
          /\ destroy_posts' = destroy_posts + 1
          /\ wthread' = "exited"
          /\ ~repr_alive' /\ ~receiver_alive']_vars
  /\ [](phase = "Failed" =>
          (orig = "none" /\ clones = 0 /\ loop_pc = "NotStarted"
           /\ wthread = "exited" /\ ~window.handle))

\* build() has just failed in a sub-call for a builder with an icon and a
\* menu entry: the window thread has ended.
C22_Witness ==
  /\ ret.op = "build" /\ ret.res = "ErrSurface"
  /\ builder.icon /\ builder.menu_items # <<>>
  /\ phase = "Failed" /\ wthread = "exited" /\ destroy_posts = 1
  /\ orig = "none" /\ loop_pc = "NotStarted"

====
